---- MODULE Spec2Model ----
(***************************************************************************)
(* A model of src/inference.py: the InferenceUNetPseudo3D object, its      *)
(* generate call (validation, prepare_inputs, the pmapped _generate on     *)
(* every device, the gathering of the images) and set_scheduler.           *)
(*                                                                         *)
(* Representation.                                                         *)
(*  - Tensor values are rationals in units of 1/255: the raw 8-bit value p *)
(*    is normalised to 2p - 255 (that is (p/255)*2 - 1), 1.0 is 255 and    *)
(*    the comparison "x < 0.5" is "2x < 255".                              *)
(*  - An image is [size, px]: its (width, height) and NPix sample pixels   *)
(*    (grey levels; a hint is grey, R = G = B).  The images handed to      *)
(*    generate are uniform, so that Image.resize and the nearest-neighbour *)
(*    resize keep the sample values and change the size only.              *)
(*  - The networks, the tokenizer and the random generator are pure        *)
(*    functions of their arguments: an application is the tuple of the     *)
(*    function's name and its arguments.                                   *)
(*  - A prompt text is a number; the empty string is 0.                    *)
(***************************************************************************)
EXTENDS Integers, Sequences, FiniteSets, TLC

VARIABLES
  self,        \* the InferenceUNetPseudo3D object: its attributes
  pc,          \* where the generate call is: idle, dispatched, done, raised
  req,         \* the arguments of the call
  caller,      \* the hint and mask objects the caller passed, as they are now
  reqValid,    \* whether the arguments, all of them, meet the preconditions
  err,         \* the exception generate raised, "none" if none
  prepared,    \* prepare_inputs was entered in this call
  dispatched,  \* _p_generate was entered in this call
  workers,     \* one record per device: its shard, its status, its output
  images,      \* the list generate returned
  nrun,        \* 0 when idle, 1 in a call, 2 in its repetition
  first,       \* what the first of two identical calls returned
  pix,         \* the mask and hint pixels of the pixel-level specification
  gd           \* the predictions of the guidance specification

vars == <<self, pc, req, caller, reqValid, err, prepared, dispatched,
          workers, images, nrun, first, pix, gd>>

(***************************************************************************)
(* Bounds of the model.                                                    *)
(***************************************************************************)
MaxDevices == 2
MaxBatch == 4
MaxSteps == 2
MaxFrames == 2
NPix == 2
\* the width in bits of the seed a random key keeps (32 in the program)
KeyBits == 2

(***************************************************************************)
(* Program constants.                                                      *)
(***************************************************************************)
PixMax == 255
SizeMultiple == 32
VaeScaleFactor == 8

Schemes == {"DDIM", "DDPM", "PNDM", "LMSDiscrete", "DPMSolverMultistep",
            "KarrasVe", "ScoreSdeVe"}

(***************************************************************************)
(* Sequences.                                                              *)
(***************************************************************************)
Reverse(s) == [i \in 1..Len(s) |-> s[Len(s) + 1 - i]]

Replicate(x, n) == [i \in 1..n |-> x]

\* Python's s[a:b] for 0 <= a, b (already normalised indices).
Slice(s, a, b) == IF b <= a THEN <<>> ELSE SubSeq(s, a + 1, b)

Max(a, b) == IF a >= b THEN a ELSE b

RECURSIVE Pow2(_)
Pow2(n) == IF n = 0 THEN 1 ELSE 2 * Pow2(n - 1)

(***************************************************************************)
(* Images (PIL) and the pixel arithmetic of prepare_inputs.                *)
(***************************************************************************)
Uniform(size, grey) == [size |-> size, px |-> Replicate(grey, NPix)]

\* Image.new('L', size, color = 0)
ImageNew(size, color) == Uniform(size, color)

\* im.resize((width, height), resample = LANCZOS) of a uniform image: a new
\* image of the target size; every output pixel is a normalised weighted sum
\* of equal input pixels, which is that pixel value.
Resize(im, width, height) == [size |-> <<width, height>>, px |-> im.px]

\* for i, im in enumerate(list): if im.size != (width, height): list[i] = resize
ResizeAll(list, width, height) ==
  [i \in 1..Len(list) |->
     IF list[i].size # <<width, height>>
     THEN Resize(list[i], width, height)
     ELSE list[i]]

\* (x / 255) * 2 - 1, in units of 1/255
Scale(p) == 2 * p - PixMax

\* a faulty variant of SetBelow: the threshold taken at 0, the middle of the
\* normalised range
SetBelowZero(v) == IF v < 0 THEN 0 ELSE v

\* mask.at[mask < 0.5].set(0)
SetBelow(v) == IF 2 * v < PixMax THEN 0 ELSE v

\* mask.at[mask >= 0.5].set(1)
SetAtOrAbove(v) == IF 2 * v >= PixMax THEN PixMax ELSE v

\* the two updates in sequence, on one normalised value
Binarize(v) == SetAtOrAbove(SetBelow(v))

\* a faulty variant of MaskHint: the hint kept where the mask is set
MaskHintInverted(h, m) == h * (IF 2 * m >= PixMax THEN 1 ELSE 0)

\* hint * (mask < 0.5), on one value of each
MaskHint(h, m) == h * (IF 2 * m < PixMax THEN 1 ELSE 0)

\* np.asarray(x.convert(...)) ... .astype(float32), scaled: one tensor (one
\* batch item), with its spatial shape (height, width)
ToTensor(im) ==
  [shape |-> <<im.size[2], im.size[1]>>, v |-> [i \in 1..Len(im.px) |-> Scale(im.px[i])]]

BinarizeTensor(t) == [t EXCEPT !.v = [i \in 1..Len(t.v) |-> Binarize(t.v[i])]]

MaskTensor(h, m) ==
  [h EXCEPT !.v = [i \in 1..Len(h.v) |-> MaskHint(h.v[i], m.v[i])]]

\* the tokenizer, padded and truncated to 77 ids: a function of the text
Tokenize(text) == <<"ids", text>>

\* prepare_inputs: the four tensors, one entry per batch item, and the two
\* lists as the loops at lines 149-154 leave them
prepare_inputs(prompt, neg_prompt, hint_image, mask_image, width, height) ==
  LET hints == ResizeAll(hint_image, width, height)
      masks == ResizeAll(mask_image, width, height)
      mask  == [i \in 1..Len(masks) |-> BinarizeTensor(ToTensor(masks[i]))]
      hint  == [i \in 1..Len(hints) |-> MaskTensor(ToTensor(hints[i]), mask[i])]
  IN  [tokens     |-> [i \in 1..Len(prompt) |-> Tokenize(prompt[i])],
       neg_tokens |-> [i \in 1..Len(neg_prompt) |-> Tokenize(neg_prompt[i])],
       hint       |-> hint,
       mask       |-> mask,
       hint_image |-> hints,
       mask_image |-> masks]

(***************************************************************************)
(* The schedulers (the Flax scheduler classes of lines 18-26, which        *)
(* _generate uses through from_pretrained, set_timesteps, init_noise_sigma,*)
(* scale_model_input and step).                                            *)
(***************************************************************************)
\* scheduler_cls.from_pretrained(model_path, subfolder = 'scheduler'): the
\* scheduler object and its initial state, both functions of the class
\* and of the configuration on disk
from_pretrained(scheduler_cls) ==
  [scheduler |-> scheduler_cls,
   state     |-> [scheme           |-> scheduler_cls,
                  init_noise_sigma |-> <<"init_noise_sigma", scheduler_cls>>,
                  timesteps        |-> <<>>]]

\* arange(0, n): the scheduled timesteps in units of the step ratio
Arange(n) == [i \in 1..n |-> i - 1]

\* scheduler.set_timesteps(state, num_inference_steps, shape): the state with
\* its schedule.  Every scheme schedules num_inference_steps timesteps, in
\* descending order, but PNDM (with skip_prk_steps, the PLMS schedule), which
\* repeats the second timestep:
\*   concatenate([ts[:-1], ts[-2:-1], ts[-1:]])[::-1]
set_timesteps(state, n) ==
  LET ts == Arange(n)
  IN  [state EXCEPT !.timesteps =
         IF state.scheme = "PNDM"
         THEN Reverse(Slice(ts, 0, n - 1) \o Slice(ts, Max(n - 2, 0), n - 1)
                      \o Slice(ts, n - 1, n))
         ELSE Reverse(ts)]

(***************************************************************************)
(* _generate: what one device computes from its shard.                     *)
(***************************************************************************)
\* a faulty variant of trip_count: the loop left one iteration early
trip_count_short(lower, upper) == Max(upper - lower - 1, 0)

\* the number of iterations of jax.lax.fori_loop(lower, upper, body, init):
\* the body runs for i = lower, ..., upper - 1, on init and then on its own
\* result
trip_count(lower, upper) == Max(upper - lower, 0)


\* a faulty variant of rearrange_b_f: the pattern '(f b)'
rearrange_f_b(latents, num_frames) ==
  [k \in 1..Len(latents) * num_frames |->
     [item  |-> latents[((k - 1) % Len(latents)) + 1],
      frame |-> (k - 1) \div Len(latents)]]

\* 'b c f h w -> (b f) c h w': frame f (from 1) of item b (from 1) goes to
\* place (b - 1) * F + f
rearrange_b_f(latents, num_frames) ==
  [k \in 1..Len(latents) * num_frames |->
     [item  |-> latents[((k - 1) \div num_frames) + 1],
      frame |-> (k - 1) % num_frames]]

\* a faulty variant of at_set: every frame written to the first slot
at_set_first(buf, step, x) == [buf EXCEPT ![1] = x]

\* images_out.at[step].set(x), step from 0
at_set(buf, step, x) == [buf EXCEPT ![step + 1] = x]

_generate(obj, tokens, neg_tokens, hint, mask, inference_steps, num_frames, height, width, cfg, rng, params) ==
  LET batch_size == Len(tokens)
      latent_h == height \div obj.vae_scale_factor
      latent_w == width \div obj.vae_scale_factor
      encoded_prompt(j) == <<"text_encoder", params.text_encoder, tokens[j]>>
      encoded_neg_prompt(j) == <<"text_encoder", params.text_encoder, neg_tokens[j]>>
      \* vae.encode(hint).latent_dist.mean * scaling_factor, channels first
      hint_l(j) == [shape |-> <<hint[j].shape[1] \div obj.vae_scale_factor,
                              hint[j].shape[2] \div obj.vae_scale_factor>>,
                    v     |-> <<"vae.encode", params.vae, hint[j].v>>]
      \* jax.image.resize(mask, (..., *hint.shape[-2:]), method = 'nearest')
      mask_l(j) == [shape |-> hint_l(j).shape, v |-> mask[j].v]
      \* jax.random.normal(rng, latent_shape) * init_noise_sigma; with the
      \* values sample_loop closes over: every step feeds the denoiser
      \* [latents, mask, hint] and the two prompt encodings
      latents0 == [j \in 1..batch_size |->
                     [noise  |-> <<"normal", rng, j>>,
                      sigma  |-> params.scheduler.init_noise_sigma,
                      shape  |-> <<num_frames, latent_h, latent_w>>,
                      unet   |-> params.unet,
                      hint   |-> hint_l(j),
                      mask   |-> mask_l(j),
                      cond   |-> encoded_prompt(j),
                      uncond |-> encoded_neg_prompt(j),
                      cfg    |-> cfg,
                      t      |-> <<>>]]
      scheduler_state0 == set_timesteps(params.scheduler, inference_steps)
      sample_loop(step, args) ==
        LET t == args.scheduler_state.timesteps[step + 1]
        IN  [latents |->
               [j \in 1..batch_size |-> [args.latents[j] EXCEPT !.t = Append(@, t)]],
             scheduler_state |-> args.scheduler_state,
             \* what the loop read and fed to the denoiser, step by step
             trace |-> Append(args.trace,
                              [step |-> step, t |-> t,
                               mask |-> [j \in 1..batch_size |-> mask_l(j).v]])]
      \* fori_loop(0, inference_steps, sample_loop, (latents, scheduler_state))
      sampled[k \in 0..trip_count(0, inference_steps)] ==
        IF k = 0
        THEN [latents |-> latents0, scheduler_state |-> scheduler_state0,
              trace |-> <<>>]
        ELSE sample_loop(k - 1, sampled[k - 1])
      final == sampled[trip_count(0, inference_steps)]
      latents == rearrange_b_f(final.latents, num_frames)
      num_images == Len(latents)
      \* vae.decode of one frame, channels first
      decode(x) == [shape |-> <<x.item.shape[2] * obj.vae_scale_factor,
                               x.item.shape[3] * obj.vae_scale_factor>>,
                    v     |-> <<"vae.decode", params.vae, x>>]
      zeros == [k \in 1..num_images |-> [shape |-> <<height, width>>, v |-> <<>>]]
      \* the buffer, and the steps whose frame was written so far
      decode_loop(step, acc) ==
        [buf    |-> at_set(acc.buf, step, decode(latents[step + 1])),
         writes |-> Append(acc.writes, step)]
      \* fori_loop(0, num_images, decode_loop, images_out)
      decoded[k \in 0..trip_count(0, num_images)] ==
        IF k = 0 THEN [buf |-> zeros, writes |-> <<>>]
        ELSE decode_loop(k - 1, decoded[k - 1])
      images_out == IF obj.low_vram
                    THEN decoded[trip_count(0, num_images)].buf
                    ELSE [k \in 1..num_images |-> decode(latents[k])]
      \* ((x / 2 + 0.5).clip(0, 1) * 255).round().clip(0, 255).astype(uint8)
      to_uint8(x) == [x EXCEPT !.v = <<"uint8", @>>]
  IN  [out      |-> [k \in 1..num_images |-> to_uint8(images_out[k])],
       trace    |-> final.trace,
       writes   |-> IF obj.low_vram THEN decoded[trip_count(0, num_images)].writes
                    ELSE <<>>,
       schedule |-> final.scheduler_state.timesteps]

(***************************************************************************)
(* The arguments of generate.                                              *)
(***************************************************************************)
Widths == {48, 64}
Heights == {32, 48}
Cfgs == {7}
Seeds == {0, Pow2(KeyBits) - 1}

\* no argument
NoArg == [kind |-> "unset", v |-> <<>>]

\* prompt: one string, or a list of distinct strings
PromptArgs ==
  {[kind |-> "str", v |-> <<1>>]}
    \cup {[kind |-> "list", v |-> [i \in 1..n |-> i]] : n \in 0..MaxBatch}

\* the lengths of the lists passed beside a prompt of batch size bs
LenChoices(bs) == {n \in {bs - 1, bs, bs + 1} : n >= 0 /\ n <= MaxBatch}

HintImage(i) == Uniform(IF i % 2 = 1 THEN <<64, 32>> ELSE <<32, 32>>, 40 * i)

MaskImage(i) == Uniform(IF i % 2 = 1 THEN <<32, 32>> ELSE <<64, 32>>,
                        IF i % 2 = 1 THEN 255 ELSE 128)

HintArgs(bs) ==
  {[kind |-> "image", v |-> <<HintImage(1)>>]}
    \cup {[kind |-> "list", v |-> [i \in 1..n |-> HintImage(i)]] : n \in LenChoices(bs)}

MaskArgs(bs) ==
  {[kind |-> "none", v |-> <<>>], [kind |-> "image", v |-> <<MaskImage(1)>>]}
    \cup {[kind |-> "list", v |-> [i \in 1..n |-> MaskImage(i)]] : n \in LenChoices(bs)}

NegArgs(bs) ==
  {[kind |-> "str", v |-> <<0>>]}
    \cup {[kind |-> "list", v |-> [i \in 1..n |-> 100 + i]] : n \in LenChoices(bs)}

\* a list of negative prompts is passed beside the plain forms of the hint
\* and the mask (one image, no mask)
NegArgsFor(r) ==
  IF r.hint_image.kind = "image" /\ r.mask_image.kind = "none"
  THEN NegArgs(Len(r.prompt.v))
  ELSE {[kind |-> "str", v |-> <<0>>]}

\* no call
NoReq ==
  [inference_steps |-> -1, num_frames |-> -1, width |-> -1, height |-> -1,
   prompt |-> NoArg, hint_image |-> NoArg, mask_image |-> NoArg,
   neg_prompt |-> NoArg, cfg |-> -1, seed |-> -1]

NoCaller == [hint_image |-> NoArg, mask_image |-> NoArg]

NoFirst == [set |-> FALSE, images |-> <<>>, self |-> <<>>]

\* the preconditions of generate, one by one, on the arguments r
PreSteps(r) == r.inference_steps > 0
PreFrames(r) == r.num_frames > 0
PreWidth(r) == r.width % SizeMultiple = 0
PreHeight(r) == r.height % SizeMultiple = 0
PreBatch(r, device_count) == Len(r.prompt.v) % device_count = 0
PreHint(r) == r.hint_image.kind = "list" => Len(r.hint_image.v) = Len(r.prompt.v)
PreMask(r) == r.mask_image.kind = "list" => Len(r.mask_image.v) = Len(r.prompt.v)
PreNeg(r) == r.neg_prompt.kind = "list" => Len(r.neg_prompt.v) = Len(r.prompt.v)

ValidRequest(r, device_count) ==
  /\ PreSteps(r) /\ PreFrames(r) /\ PreWidth(r) /\ PreHeight(r)
  /\ PreBatch(r, device_count)
  /\ PreHint(r) /\ PreMask(r) /\ PreNeg(r)

\* The calls of the model, for an object with device_count devices: the
\* combinations of the argument values above that meet the preconditions,
\* and, for each precondition, the calls that violate it after meeting the
\* ones before it (their later arguments are those of DefaultReq).
DefaultReq(device_count) ==
  [inference_steps |-> 1, num_frames |-> 1, width |-> 64, height |-> 32,
   prompt     |-> [kind |-> "list", v |-> [i \in 1..device_count |-> i]],
   hint_image |-> [kind |-> "image", v |-> <<HintImage(1)>>],
   mask_image |-> [kind |-> "none", v |-> <<>>],
   neg_prompt |-> [kind |-> "str", v |-> <<0>>],
   cfg |-> 7, seed |-> 0]

Requests(device_count) ==
  LET Extend(R, Ok(_), More(_)) ==
        {r \in R : ~Ok(r)} \cup UNION {More(r) : r \in {x \in R : Ok(x)}}
      Ok1(r) == PreSteps(r)
      Ok2(r) == Ok1(r) /\ PreFrames(r)
      Ok3(r) == Ok2(r) /\ PreWidth(r)
      Ok4(r) == Ok3(r) /\ PreHeight(r)
      Ok5(r) == Ok4(r) /\ PreBatch(r, device_count)
      Ok6(r) == Ok5(r) /\ PreHint(r)
      Ok7(r) == Ok6(r) /\ PreMask(r)
      Ok8(r) == Ok7(r) /\ PreNeg(r)
      M2(r) == {[r EXCEPT !.num_frames = x] : x \in 0..MaxFrames}
      M3(r) == {[r EXCEPT !.width = x] : x \in Widths}
      M4(r) == {[r EXCEPT !.height = x] : x \in Heights}
      M5(r) == {[r EXCEPT !.prompt = x] : x \in PromptArgs}
      M6(r) == {[r EXCEPT !.hint_image = x] : x \in HintArgs(Len(r.prompt.v))}
      M7(r) == {[r EXCEPT !.mask_image = x] : x \in MaskArgs(Len(r.prompt.v))}
      M8(r) == {[r EXCEPT !.neg_prompt = x] : x \in NegArgsFor(r)}
      M9(r) == {[r EXCEPT !.cfg = x, !.seed = y] : x \in Cfgs, y \in Seeds}
      R1 == {[DefaultReq(device_count) EXCEPT !.inference_steps = x] : x \in 0..MaxSteps}
      R2 == Extend(R1, Ok1, M2)
      R3 == Extend(R2, Ok2, M3)
      R4 == Extend(R3, Ok3, M4)
      R5 == Extend(R4, Ok4, M5)
      R6 == Extend(R5, Ok5, M6)
      R7 == Extend(R6, Ok6, M7)
      R8 == Extend(R7, Ok7, M8)
  IN  Extend(R8, Ok8, M9)

\* The calls with the prompt given as one string, beside every value of the
\* other arguments that an assertion reads.
StrPromptRequests(device_count) ==
  {[DefaultReq(device_count) EXCEPT
      !.prompt = [kind |-> "str", v |-> <<1>>],
      !.inference_steps = n, !.height = h,
      !.hint_image = hi, !.mask_image = mi, !.neg_prompt = np] :
     n \in {0, 1}, h \in Heights, hi \in HintArgs(1), mi \in MaskArgs(1),
     np \in NegArgs(1)}

(***************************************************************************)
(* generate, up to the dispatch: lines 191-239.                            *)
(***************************************************************************)
\* isinstance(x, str) / isinstance(x, Image.Image): [x] * batch_size
AsList(arg, batch_size) ==
  IF arg.kind = "list" THEN arg.v ELSE Replicate(arg.v[1], batch_size)

\* a faulty variant of FailedAssert: the assertion on the batch size left out
FailedAssertNoBatch(r, device_count) ==
  LET batch_size == Len(r.prompt.v)
      hint_image == AsList(r.hint_image, batch_size)
  IN  IF ~(r.inference_steps > 0) THEN "inference_steps"
      ELSE IF ~(r.num_frames > 0) THEN "num_frames"
      ELSE IF ~(r.width % SizeMultiple = 0) THEN "width"
      ELSE IF ~(r.height % SizeMultiple = 0) THEN "height"
      ELSE IF ~(Len(hint_image) = batch_size) THEN "hint_image"
      ELSE IF r.mask_image.kind = "none" /\ hint_image = <<>> THEN "IndexError"
      ELSE IF r.mask_image.kind # "none"
              /\ ~(Len(AsList(r.mask_image, batch_size)) = batch_size) THEN "mask_image"
      ELSE IF ~(Len(AsList(r.neg_prompt, batch_size)) = batch_size) THEN "neg_prompt"
      ELSE "none"

\* a faulty variant of FailedAssert: the assertion on height left out
FailedAssertNoHeight(r, device_count) ==
  LET batch_size == Len(r.prompt.v)
      hint_image == AsList(r.hint_image, batch_size)
  IN  IF ~(r.inference_steps > 0) THEN "inference_steps"
      ELSE IF ~(r.num_frames > 0) THEN "num_frames"
      ELSE IF ~(r.width % SizeMultiple = 0) THEN "width"
      ELSE IF ~(batch_size % device_count = 0) THEN "batch_size"
      ELSE IF ~(Len(hint_image) = batch_size) THEN "hint_image"
      ELSE IF r.mask_image.kind = "none" /\ hint_image = <<>> THEN "IndexError"
      ELSE IF r.mask_image.kind # "none"
              /\ ~(Len(AsList(r.mask_image, batch_size)) = batch_size) THEN "mask_image"
      ELSE IF ~(Len(AsList(r.neg_prompt, batch_size)) = batch_size) THEN "neg_prompt"
      ELSE "none"

\* the assertion of lines 191-209 that fails first, "none" if none does.
\* A missing mask is built from hint_image[0] before its length is asserted.
FailedAssert(r, device_count) ==
  LET batch_size == Len(r.prompt.v)
      hint_image == AsList(r.hint_image, batch_size)
  IN  IF ~(r.inference_steps > 0) THEN "inference_steps"
      ELSE IF ~(r.num_frames > 0) THEN "num_frames"
      ELSE IF ~(r.width % SizeMultiple = 0) THEN "width"
      ELSE IF ~(r.height % SizeMultiple = 0) THEN "height"
      ELSE IF ~(batch_size % device_count = 0) THEN "batch_size"
      ELSE IF ~(Len(hint_image) = batch_size) THEN "hint_image"
      ELSE IF r.mask_image.kind = "none" /\ hint_image = <<>> THEN "IndexError"
      ELSE IF r.mask_image.kind # "none"
              /\ ~(Len(AsList(r.mask_image, batch_size)) = batch_size) THEN "mask_image"
      ELSE IF ~(Len(AsList(r.neg_prompt, batch_size)) = batch_size) THEN "neg_prompt"
      ELSE "none"

\* jax.random.PRNGKey(seed): the key keeps the low bits of the seed
PRNGKey(seed) == <<"key", seed % Pow2(KeyBits)>>

\* a faulty variant of rngs_of: one key for all the devices
rngs_shared(seed, device_count) == [i \in 1..device_count |-> PRNGKey(seed)]

\* a faulty variant of rngs_of: keys that depend on the calls made before
rngs_from_calls(seed, device_count) ==
  [i \in 1..device_count |-> PRNGKey(seed + (i - 1) + nrun)]

\* [ PRNGKey(seed + i) for i in range(device_count) ]
rngs_of(seed, device_count) == [i \in 1..device_count |-> PRNGKey(seed + (i - 1))]

\* flax shard(x): x.reshape((device_count, -1) + x.shape[1:]), device d from 1
shard(x, device_count, d) ==
  LET n == Len(x) \div device_count
  IN  SubSeq(x, (d - 1) * n + 1, d * n)

\* a faulty variant of default_mask: a white mask
default_mask_white(hint_image) == ImageNew(hint_image[1].size, PixMax)

\* Image.new('L', hint_image[0].size, color = 0)
default_mask(hint_image) == ImageNew(hint_image[1].size, 0)

\* a faulty variant of caller_after: prepare_inputs at work on a copy
caller_kept(arg, list) == arg

\* the caller's argument after prepare_inputs has left the list it was given
\* as list: a list argument is that very list (lines 199 and 204 wrap a
\* single image in a new list, which the caller does not hold)
caller_after(arg, list) ==
  IF arg.kind = "list" THEN [arg EXCEPT !.v = list] ELSE arg

\* the body of generate on arguments r, in run number run of the call
Call(r, run) ==
  LET e == FailedAssert(r, self.device_count)
      batch_size == Len(r.prompt.v)
      hint_image == AsList(r.hint_image, batch_size)
      mask_image == IF r.mask_image.kind = "none"
                    THEN Replicate(default_mask(hint_image), batch_size)
                    ELSE AsList(r.mask_image, batch_size)
      neg_prompt == AsList(r.neg_prompt, batch_size)
      p == prepare_inputs(r.prompt.v, neg_prompt, hint_image, mask_image,
                          r.width, r.height)
      rngs == rngs_of(r.seed, self.device_count)
  IN  /\ nrun' = run
      /\ reqValid' = ValidRequest(r, self.device_count)
      /\ images' = <<>>
      /\ IF e # "none"
         THEN /\ pc' = "raised"
              /\ err' = e
              /\ req' = r
              /\ caller' = [hint_image |-> r.hint_image, mask_image |-> r.mask_image]
              /\ prepared' = FALSE
              /\ dispatched' = FALSE
              /\ workers' = <<>>
         ELSE IF batch_size = 0
         THEN \* prepare_inputs concatenates an empty list of arrays
              /\ pc' = "raised"
              /\ err' = "ValueError"
              /\ req' = r
              /\ caller' = [hint_image |-> r.hint_image, mask_image |-> r.mask_image]
              /\ prepared' = TRUE
              /\ dispatched' = FALSE
              /\ workers' = <<>>
         ELSE /\ pc' = "dispatched"
              /\ err' = "none"
              /\ req' = r
              /\ caller' = [hint_image |-> caller_after(r.hint_image, p.hint_image),
                             mask_image |-> caller_after(r.mask_image, p.mask_image)]
              /\ prepared' = TRUE
              /\ dispatched' = TRUE
              /\ workers' =
                   [d \in 1..self.device_count |->
                      [status     |-> "running",
                       tokens     |-> shard(p.tokens, self.device_count, d),
                       neg_tokens |-> shard(p.neg_tokens, self.device_count, d),
                       hint       |-> shard(p.hint, self.device_count, d),
                       mask       |-> shard(p.mask, self.device_count, d),
                       rng        |-> rngs[d],
                       params     |-> self.params,
                       res        |-> <<>>]]
      /\ UNCHANGED <<self, pix, gd>>

generate ==
  /\ pc = "idle"
  /\ first' = NoFirst
  /\ \E r \in Requests(self.device_count) \cup StrPromptRequests(self.device_count) :
       Call(r, 1)

\* the same call once more, with the same model state and the same argument
\* objects (the lists as the first call left them)
generate_again ==
  /\ pc = "done"
  /\ nrun = 1
  /\ first' = [set |-> TRUE, images |-> images, self |-> self]
  /\ Call([req EXCEPT !.hint_image = caller.hint_image,
                      !.mask_image = caller.mask_image], 2)

(***************************************************************************)
(* The devices: _p_generate runs _generate on every shard (pmap).          *)
(***************************************************************************)
_p_generate(d) ==
  /\ pc = "dispatched"
  /\ workers[d].status = "running"
  /\ LET w == workers[d]
         res == _generate(self, w.tokens, w.neg_tokens, w.hint, w.mask,
                          req.inference_steps, req.num_frames, req.height,
                          req.width, req.cfg, w.rng, w.params)
     IN  workers' = [workers EXCEPT ![d] = [w EXCEPT !.status = "done", !.res = res]]
  /\ UNCHANGED <<self, pc, req, caller, reqValid, err, prepared, dispatched,
                 images, nrun, first, pix, gd>>

\* a faulty variant of returned_on_failure: the images of the devices that
\* returned are handed back
salvaged_on_failure(ws) ==
  LET RECURSIVE Cat(_)
      Cat(d) == IF d = 0 THEN <<>>
                ELSE Cat(d - 1) \o (IF ws[d].status = "done" THEN ws[d].res.out ELSE <<>>)
  IN  Cat(Len(ws))

\* what generate returns when the pmapped call raises: lines 227-247 catch
\* nothing, the exception leaves generate and no list is returned
returned_on_failure(ws) == <<>>

\* a fault on device d (out of memory, a failed forward pass or decode): the
\* pmapped call raises in generate, whatever the other devices have done
_p_generate_fails(d) ==
  /\ pc = "dispatched"
  /\ workers[d].status = "running"
  /\ workers' = [workers EXCEPT ![d].status = "failed"]
  /\ pc' = "raised"
  /\ err' = "XlaRuntimeError"
  /\ images' = returned_on_failure(workers')
  /\ UNCHANGED <<self, req, caller, reqValid, prepared, dispatched, nrun, first,
                 pix, gd>>

\* 'd f c h w -> (d f) h w c': image f (from 1) of device d goes to place
\* (d - 1) * n + f
rearrange_d_f(outs) ==
  LET n == Len(outs[1])
  IN  [k \in 1..Len(outs) * n |-> outs[((k - 1) \div n) + 1][((k - 1) % n) + 1]]

\* Image.fromarray(x), x of shape (height, width, channels)
fromarray(x) == [size |-> <<x.shape[2], x.shape[1]>>, px |-> x.v]

\* lines 240-247: the images of all devices, once every device has returned
gather ==
  /\ pc = "dispatched"
  /\ \A d \in 1..Len(workers) : workers[d].status = "done"
  /\ LET x == rearrange_d_f([d \in 1..Len(workers) |-> workers[d].res.out])
     IN  images' = [k \in 1..Len(x) |-> fromarray(x[k])]
  /\ pc' = "done"
  /\ UNCHANGED <<self, req, caller, reqValid, err, prepared, dispatched,
                 workers, nrun, first, pix, gd>>

\* the caller is done with the call (its result or its exception)
finish ==
  /\ pc \in {"done", "raised"}
  /\ pc' = "idle"
  /\ req' = NoReq
  /\ caller' = NoCaller
  /\ reqValid' = TRUE
  /\ err' = "none"
  /\ prepared' = FALSE
  /\ dispatched' = FALSE
  /\ workers' = <<>>
  /\ images' = <<>>
  /\ nrun' = 0
  /\ first' = NoFirst
  /\ UNCHANGED <<self, pix, gd>>

(***************************************************************************)
(* The object: __init__ and set_scheduler.                                 *)
(***************************************************************************)
\* a faulty variant of set_scheduler_of: the parameter bundle rebuilt
set_scheduler_fresh_params(obj, scheduler_cls) ==
  [obj EXCEPT !.scheduler = from_pretrained(scheduler_cls).scheduler,
              !.params = [unet |-> <<>>, vae |-> <<>>, text_encoder |-> <<>>,
                          scheduler |-> from_pretrained(scheduler_cls).state]]

\* lines 114-121
set_scheduler_of(obj, scheduler_cls) ==
  [obj EXCEPT !.scheduler = from_pretrained(scheduler_cls).scheduler,
              !.params.scheduler = from_pretrained(scheduler_cls).state]

set_scheduler ==
  /\ pc = "idle"
  /\ \E scheduler_cls \in Schemes : self' = set_scheduler_of(self, scheduler_cls)
  /\ UNCHANGED <<pc, req, caller, reqValid, err, prepared, dispatched, workers,
                 images, nrun, first, pix, gd>>

\* __init__(model_path, scheduler_cls = FlaxDDIMScheduler, dtype = float16,
\* low_vram), on a host with device_count devices
init_object(low_vram, device_count) ==
  [low_vram         |-> low_vram,
   dtype            |-> "float16",
   model_path       |-> "model_path",
   params           |-> [unet         |-> <<"params", "unet", "float16">>,
                         vae          |-> <<"params", "vae", "float16">>,
                         text_encoder |-> <<"params", "text_encoder", "float16">>,
                         scheduler    |-> from_pretrained("DDIM").state],
   unet             |-> "UNetPseudo3DConditionModel",
   vae              |-> "FlaxAutoencoderKL",
   text_encoder     |-> "FlaxCLIPTextModel",
   tokenizer        |-> "CLIPTokenizer",
   scheduler        |-> from_pretrained("DDIM").scheduler,
   vae_scale_factor |-> VaeScaleFactor,
   device_count     |-> device_count]

NoPix == [stage |-> "none"]
NoGd == [stage |-> "none"]

\* no call of generate is under way
NoCall ==
  /\ pc = "idle"
  /\ req = NoReq
  /\ caller = NoCaller
  /\ reqValid = TRUE
  /\ err = "none"
  /\ prepared = FALSE
  /\ dispatched = FALSE
  /\ workers = <<>>
  /\ images = <<>>
  /\ nrun = 0
  /\ first = NoFirst

Init ==
  /\ \E low_vram \in BOOLEAN, device_count \in 1..MaxDevices :
       self = init_object(low_vram, device_count)
  /\ NoCall
  /\ pix = NoPix
  /\ gd = NoGd

Next ==
  \/ generate
  \/ generate_again
  \/ \E d \in 1..Len(workers) : _p_generate(d)
  \/ \E d \in 1..Len(workers) : _p_generate_fails(d)
  \/ gather
  \/ finish
  \/ set_scheduler

Spec == Init /\ [][Next]_vars

(***************************************************************************)
(* The pixel-level specification: lines 161-173 of prepare_inputs, update  *)
(* by update, on the pixels of one mask and one hint; the first mask pixel *)
(* takes every 8-bit value.                                                *)
(***************************************************************************)
HintGreys == {0, 90, 255}

\* the mask pixels after the first
RestOfMask(i) == IF i % 3 = 2 THEN 191 ELSE IF i % 3 = 0 THEN PixMax ELSE 0

PixInit ==
  /\ self = init_object(FALSE, 1)
  /\ NoCall
  /\ gd = NoGd
  /\ \E p \in 0..PixMax, g \in HintGreys :
       pix = [stage    |-> "raw",
              raw_mask |-> [i \in 1..NPix |-> IF i = 1 THEN p ELSE RestOfMask(i)],
              raw_hint |-> Replicate(g, NPix),
              mask     |-> <<>>,
              hint     |-> <<>>,
              scaled   |-> <<>>,
              masked   |-> <<>>]

\* hint = (hint / 255) * 2 - 1; mask = (mask / 255) * 2 - 1
pix_scale ==
  /\ pix.stage = "raw"
  /\ pix' = [pix EXCEPT !.stage = "scaled",
                         !.mask = [i \in 1..NPix |-> Scale(pix.raw_mask[i])],
                         !.hint = [i \in 1..NPix |-> Scale(pix.raw_hint[i])],
                         !.scaled = [i \in 1..NPix |-> Scale(pix.raw_hint[i])]]
  /\ UNCHANGED <<self, pc, req, caller, reqValid, err, prepared, dispatched,
                 workers, images, nrun, first, gd>>

\* mask = mask.at[mask < 0.5].set(0)
pix_set_below ==
  /\ pix.stage = "scaled"
  /\ pix' = [pix EXCEPT !.stage = "below", !.mask = [i \in 1..NPix |-> SetBelow(pix.mask[i])]]
  /\ UNCHANGED <<self, pc, req, caller, reqValid, err, prepared, dispatched,
                 workers, images, nrun, first, gd>>

\* mask = mask.at[mask >= 0.5].set(1)
pix_set_at_or_above ==
  /\ pix.stage = "below"
  /\ pix' = [pix EXCEPT !.stage = "binarized",
                         !.mask = [i \in 1..NPix |-> SetAtOrAbove(pix.mask[i])]]
  /\ UNCHANGED <<self, pc, req, caller, reqValid, err, prepared, dispatched,
                 workers, images, nrun, first, gd>>

\* hint = hint * (mask < 0.5)
pix_mask_hint ==
  /\ pix.stage = "binarized"
  /\ pix' = [pix EXCEPT !.stage = "masked",
                         !.hint = [i \in 1..NPix |-> MaskHint(pix.hint[i], pix.mask[i])]]
  /\ UNCHANGED <<self, pc, req, caller, reqValid, err, prepared, dispatched,
                 workers, images, nrun, first, gd>>

\* the same masking applied to the masked hint, with the same mask
pix_mask_hint_again ==
  /\ pix.stage = "masked"
  /\ pix' = [pix EXCEPT !.stage = "remasked",
                         !.masked = pix.hint,
                         !.hint = [i \in 1..NPix |-> MaskHint(pix.hint[i], pix.mask[i])]]
  /\ UNCHANGED <<self, pc, req, caller, reqValid, err, prepared, dispatched,
                 workers, images, nrun, first, gd>>

PixNext ==
  \/ pix_scale
  \/ pix_set_below
  \/ pix_set_at_or_above
  \/ pix_mask_hint
  \/ pix_mask_hint_again

SpecPix == PixInit /\ [][PixNext]_vars

(***************************************************************************)
(* The guidance specification: line 309 in floating point.  A number of    *)
(* the format is m * 2^e with a significand m of PrecBits bits and an      *)
(* exponent e in 0..MaxExp, or an infinity; every operation rounds its     *)
(* exact result to the nearest number of the format, ties to the even      *)
(* significand (IEEE 754, the arithmetic of jnp.float16 and jnp.float32).  *)
(***************************************************************************)
PrecBits == 3
MaxExp == 2

Abs(x) == IF x < 0 THEN -x ELSE x

Sign(x) == IF x < 0 THEN -1 ELSE 1

\* the infinity of the format, as the first power of two beyond it
Inf == Pow2(PrecBits + MaxExp)

IsInf(x) == Abs(x) >= Inf

\* the finite numbers of the format
Floats ==
  {s * m * Pow2(e) : s \in {-1, 1}, m \in 0..(Pow2(PrecBits) - 1), e \in 0..MaxExp}

\* x rounded to the format
Fl(x) ==
  LET a == Abs(x)
      e == CHOOSE k \in 0..MaxExp :
             /\ a < Pow2(PrecBits + k)
             /\ \A j \in 0..(k - 1) : a >= Pow2(PrecBits + j)
      q == Pow2(e)
      m == a \div q
      r == a - m * q
      up == IF 2 * r > q THEN TRUE ELSE IF 2 * r < q THEN FALSE ELSE m % 2 = 1
  IN  IF a >= Inf THEN Sign(x) * Inf
      ELSE Sign(x) * (IF up THEN (m + 1) * q ELSE m * q)

fl_sub(a, b) == IF IsInf(a) THEN a ELSE IF IsInf(b) THEN -b ELSE Fl(a - b)

fl_mul(a, b) == IF IsInf(a) \/ IsInf(b) THEN Sign(a) * Sign(b) * Inf ELSE Fl(a * b)

fl_add(a, b) == IF IsInf(a) THEN a ELSE IF IsInf(b) THEN b ELSE Fl(a + b)

\* a faulty variant of guidance: the two predictions exchanged
guidance_swapped(noise_pred_uncond, noise_pred, cfg) ==
  fl_add(noise_pred, fl_mul(cfg, fl_sub(noise_pred_uncond, noise_pred)))

\* noise_pred_uncond + cfg * (noise_pred - noise_pred_uncond)
guidance(noise_pred_uncond, noise_pred, cfg) ==
  fl_add(noise_pred_uncond, fl_mul(cfg, fl_sub(noise_pred, noise_pred_uncond)))

GuidanceScales == {1, 2}

\* one element of the two predictions of the denoiser, and the scale
CfgInit ==
  /\ self = init_object(FALSE, 1)
  /\ NoCall
  /\ pix = NoPix
  /\ \E c \in Floats, u \in Floats, g \in GuidanceScales :
       gd = [stage |-> "predicted", noise_pred |-> c, noise_pred_uncond |-> u,
             cfg |-> g, guided |-> 0]

guide ==
  /\ gd.stage = "predicted"
  /\ gd' = [gd EXCEPT !.stage = "guided",
                       !.guided = guidance(gd.noise_pred_uncond, gd.noise_pred, gd.cfg)]
  /\ UNCHANGED <<self, pc, req, caller, reqValid, err, prepared, dispatched,
                 workers, images, nrun, first, pix>>

CfgNext == guide

SpecCfg == CfgInit /\ [][CfgNext]_vars

(***************************************************************************)
(* The properties.                                                         *)
(***************************************************************************)
\* the devices that have returned
Returned == {d \in 1..Len(workers) : workers[d].status = "done"}

\* C1: a call whose arguments violate a precondition (step count, frame
\* count, width or height not a multiple of 32, batch size not a multiple of
\* the device count, a hint, mask or negative-prompt list of another length
\* than the batch) ends in an error, and neither prepare_inputs nor
\* _p_generate is entered in it and no image is returned.
C1_InvalidRejectedBeforeWork ==
  ~reqValid =>
    /\ pc = "raised"
    /\ err # "none"
    /\ ~prepared
    /\ ~dispatched
    /\ workers = <<>>
    /\ images = <<>>

C1_Witness ==
  /\ pc = "raised"
  /\ ~reqValid
  /\ err = "neg_prompt"
  /\ req.inference_steps > 0
  /\ Len(req.prompt.v) = 2

\* C2: every call whose arguments meet the preconditions returns, unless a
\* device fails, and it returns batch_size * num_frames images, each of size
\* (width, height).
C2_ValidReturnsImages ==
  (reqValid /\ pc \in {"raised", "done"} /\ err # "XlaRuntimeError") =>
    /\ pc = "done"
    /\ Len(images) = Len(req.prompt.v) * req.num_frames
    /\ \A k \in 1..Len(images) : images[k].size = <<req.width, req.height>>

\* C3: the returned list holds batch_size * num_frames images, and the image
\* at index i * F + f (from 0) is frame f of batch item i: it is decoded from
\* the latent conditioned on prompt i and drawn as item i mod (B/N) of the
\* device i div (B/N), whose random key is that of seed + i div (B/N).
C3_OrderedByItemThenFrame ==
  pc = "done" =>
    LET B == Len(req.prompt.v)
        F == req.num_frames
        per == B \div self.device_count
    IN  /\ Len(images) = B * F
        /\ \A i \in 0..(B - 1), f \in 0..(F - 1) :
             LET x == images[i * F + f + 1].px[2][3]
             IN  /\ x.frame = f
                 /\ x.item.cond = <<"text_encoder", self.params.text_encoder,
                                    Tokenize(req.prompt.v[i + 1])>>
                 /\ x.item.noise = <<"normal", PRNGKey(req.seed + (i \div per)),
                                     (i % per) + 1>>

C3_Witness ==
  /\ pc = "done"
  /\ self.device_count = 2
  /\ Len(req.prompt.v) = 4
  /\ req.num_frames = 2
  /\ Len(images) = 8

\* C4: a call repeated with the same model state, the same arguments and the
\* same seed returns the same images as the first call.
C4_Deterministic ==
  (pc = "done" /\ nrun = 2 /\ first.set /\ first.self = self) =>
    images = first.images

C4_Witness ==
  /\ pc = "done"
  /\ nrun = 2
  /\ first.set
  /\ first.self = self
  /\ req.hint_image.kind = "list"
  /\ req.seed # 0
  /\ Len(images) >= 2

\* C5: after the first update every mask value is 0 or at least 0.5, and
\* after the second every mask value is 0 or 1, and it is 1 exactly for the
\* pixels whose raw 8-bit value is at least 192.
C5_MaskBinarized ==
  /\ pix.stage = "below" =>
       \A i \in 1..NPix : pix.mask[i] = 0 \/ 2 * pix.mask[i] >= PixMax
  /\ pix.stage \in {"binarized", "masked", "remasked"} =>
       \A i \in 1..NPix :
         /\ pix.mask[i] \in {0, PixMax}
         /\ pix.mask[i] = PixMax <=> pix.raw_mask[i] >= 192

C5_Witness ==
  /\ pix.stage = "binarized"
  /\ pix.raw_mask[1] = 192
  /\ pix.mask[1] = PixMax
  /\ \E i \in 1..NPix : pix.raw_mask[i] = 191 /\ pix.mask[i] = 0

\* C6: after the masking the hint is 0 where the binarized mask is 1 and is
\* the normalised hint where the mask is 0; masking the masked hint again
\* with the same mask changes nothing.
C6_HintMaskedIdempotent ==
  /\ pix.stage \in {"masked", "remasked"} =>
       \A i \in 1..NPix :
         /\ pix.mask[i] = PixMax => pix.hint[i] = 0
         /\ pix.mask[i] = 0 => pix.hint[i] = pix.scaled[i]
  /\ pix.stage = "remasked" => pix.hint = pix.masked

C6_Witness ==
  /\ pix.stage = "remasked"
  /\ \E i \in 1..NPix : pix.mask[i] = PixMax /\ pix.scaled[i] # 0 /\ pix.hint[i] = 0
  /\ \E i \in 1..NPix : pix.mask[i] = 0 /\ pix.hint[i] # 0

\* C7: in a call without mask_image every device gets, for each of its
\* batch items, a mask that is 0 everywhere and the normalised hint with no
\* pixel zeroed, and the mask fed to the denoiser is 0 everywhere at every
\* one of the inference_steps steps.
C7_NoMaskNoInpainting ==
  (pc \in {"dispatched", "done"} /\ req.mask_image.kind = "none") =>
    LET B == Len(req.prompt.v)
        per == B \div self.device_count
        hints == AsList(req.hint_image, B)
    IN  \A d \in 1..Len(workers) :
          /\ Len(workers[d].mask) = per
          /\ \A j \in 1..per :
               /\ workers[d].mask[j].v = Replicate(0, NPix)
               /\ workers[d].hint[j].v =
                    [i \in 1..NPix |-> Scale(hints[(d - 1) * per + j].px[i])]
          /\ d \in Returned =>
               /\ Len(workers[d].res.trace) = req.inference_steps
               /\ \A k \in 1..Len(workers[d].res.trace), j \in 1..per :
                    workers[d].res.trace[k].mask[j] = Replicate(0, NPix)

C7_Witness ==
  /\ pc = "done"
  /\ req.mask_image.kind = "none"
  /\ req.inference_steps = 2
  /\ Len(req.prompt.v) >= 2
  /\ workers[1].hint[1].v # Replicate(0, NPix)

\* C8 as stated: with cfg = 1 the guided prediction is the conditioned
\* prediction, for every pair of predictions.
C8_ScaleOneAlwaysExact ==
  (gd.stage = "guided" /\ gd.cfg = 1) => gd.guided = gd.noise_pred

\* C8, amended: with cfg = 1 the guided prediction is the conditioned
\* prediction whenever the difference of the two predictions is a finite
\* number of the floating-point format, that is whenever the subtraction
\* neither rounds nor overflows.
C8_ScaleOneExactWithoutRounding ==
  (/\ gd.stage = "guided"
   /\ gd.cfg = 1
   /\ gd.noise_pred - gd.noise_pred_uncond \in Floats)
    => gd.guided = gd.noise_pred

C8_Witness ==
  /\ gd.stage = "guided"
  /\ gd.cfg = 1
  /\ gd.noise_pred = 5
  /\ gd.noise_pred_uncond = -2
  /\ gd.guided = 5

C10_OnlySchedulerReplaced ==
  [][self' # self =>
       /\ DOMAIN self' = DOMAIN self
       /\ \A a \in DOMAIN self \ {"scheduler", "params"} : self'[a] = self[a]
       /\ DOMAIN self'.params = DOMAIN self.params
       /\ \A k \in DOMAIN self.params \ {"scheduler"} : self'.params[k] = self.params[k]
       /\ self'.params.scheduler = from_pretrained(self'.scheduler).state]_vars

C10_Witness ==
  /\ pc = "done"
  /\ self.scheduler = "PNDM"
  /\ self.params.unet = init_object(self.low_vram, self.device_count).params.unet
  /\ self.params.scheduler = from_pretrained("PNDM").state

\* C11: images are returned only once every device has returned from its
\* whole denoising loop and its decode, and a call in which a device failed
\* is raised and returns no image, whatever the other devices returned.
C11_JoinOrFail ==
  /\ (pc = "done" \/ images # <<>>) =>
       /\ pc = "done"
       /\ \A d \in 1..Len(workers) :
            /\ workers[d].status = "done"
            /\ Len(workers[d].res.trace) = req.inference_steps
            /\ Len(workers[d].res.out) =
                 (Len(req.prompt.v) \div self.device_count) * req.num_frames
  /\ (\E d \in 1..Len(workers) : workers[d].status = "failed") =>
       /\ pc = "raised"
       /\ err # "none"
       /\ images = <<>>

C11_Witness ==
  /\ pc = "raised"
  /\ Len(workers) = 2
  /\ workers[1].status = "done"
  /\ workers[1].res.out # <<>>
  /\ workers[2].status = "failed"
  /\ images = <<>>

\* C12: in low-memory mode every device decodes the frames of its shard,
\* batch items times num_frames of them, one per iteration, writes frame k
\* to slot k once, leaves no slot at its initial zero value, and returns
\* what the whole-batch decode returns on the same latents.
C12_LowVramDecodeSame ==
  \A d \in Returned :
    self.low_vram =>
      LET w == workers[d]
          n == (Len(req.prompt.v) \div self.device_count) * req.num_frames
          whole == _generate([self EXCEPT !.low_vram = FALSE], w.tokens,
                             w.neg_tokens, w.hint, w.mask, req.inference_steps,
                             req.num_frames, req.height, req.width, req.cfg,
                             w.rng, w.params)
      IN  /\ w.res.writes = [k \in 1..n |-> k - 1]
          /\ Len(w.res.out) = n
          /\ \A k \in 1..n : w.res.out[k].v # <<"uint8", <<>>>>
          /\ w.res.out = whole.out

C12_Witness ==
  /\ pc = "done"
  /\ self.low_vram
  /\ req.num_frames = 2
  /\ Len(workers[1].res.writes) = 4
  /\ Len(images) >= 4

\* C13: in a call with seed s on N devices, device i (from 0) holds the key
\* of seed s + i, which is the key device 0 holds in a call with seed s + i,
\* and draws its noise from it; no two devices hold the same key.
C13_KeyPerDevice ==
  \A d \in 1..Len(workers) :
    /\ workers[d].rng = PRNGKey(req.seed + (d - 1))
    /\ workers[d].rng = rngs_of(req.seed + (d - 1), self.device_count)[1]
    /\ \A e \in 1..Len(workers) : e # d => workers[e].rng # workers[d].rng
    /\ d \in Returned =>
         \A k \in 1..Len(workers[d].res.out) :
           workers[d].res.out[k].v[2][3].item.noise[2] = workers[d].rng

C13_Witness ==
  /\ pc = "done"
  /\ self.device_count = 2
  /\ req.seed = Pow2(KeyBits) - 1
  /\ workers[1].rng = <<"key", Pow2(KeyBits) - 1>>
  /\ workers[2].rng = <<"key", 0>>
  /\ workers[2].res.out # <<>>

\* C14: once prepare_inputs has run, a hint or mask list of the caller holds,
\* at each place, the resized image where the image passed had another size
\* than (width, height) and the image passed where it had that size, and a
\* single image passed is as it was; a call that raised before
\* prepare_inputs left the caller's arguments as they were passed.
C14_CallerListsResizedInPlace ==
  /\ prepared =>
       \A name \in {"hint_image", "mask_image"} :
         LET a == req[name]
             c == caller[name]
         IN  IF a.kind = "list"
             THEN /\ c.kind = "list"
                  /\ Len(c.v) = Len(a.v)
                  /\ \A i \in 1..Len(a.v) :
                       c.v[i] = IF a.v[i].size # <<req.width, req.height>>
                                THEN Resize(a.v[i], req.width, req.height)
                                ELSE a.v[i]
             ELSE c = a
  /\ (pc = "raised" /\ ~prepared) =>
       caller = [hint_image |-> req.hint_image, mask_image |-> req.mask_image]

C14_Witness ==
  /\ pc = "done"
  /\ nrun = 1
  /\ req.hint_image.kind = "list"
  /\ req.mask_image.kind = "image"
  /\ caller.mask_image = req.mask_image
  /\ \E i \in 1..Len(req.hint_image.v) :
       caller.hint_image.v[i] # req.hint_image.v[i]
  /\ \E i \in 1..Len(req.hint_image.v) :
       caller.hint_image.v[i] = req.hint_image.v[i]

\* C15: a call with the prompt given as one string has a batch of one; on
\* more than one device it raises, whatever its other arguments, with
\* prepare_inputs and _p_generate not entered and no image returned, and on
\* one device the assertion on the batch size does not fail and the call,
\* its other arguments valid, is dispatched with one batch item.
C15_StringPromptBatchOfOne ==
  (pc # "idle" /\ req.prompt.kind = "str") =>
    /\ self.device_count > 1 =>
         /\ pc = "raised"
         /\ err # "none"
         /\ ~prepared
         /\ ~dispatched
         /\ workers = <<>>
         /\ images = <<>>
    /\ self.device_count = 1 =>
         /\ err # "batch_size"
         /\ reqValid =>
              /\ dispatched
              /\ Len(workers) = 1
              /\ Len(workers[1].tokens) = 1

C15_Witness ==
  /\ pc = "raised"
  /\ self.device_count = 2
  /\ req.prompt.kind = "str"
  /\ err = "batch_size"
  /\ req.neg_prompt.kind = "list"
  /\ req.mask_image.kind = "list"

====
